---- MODULE Spec2Model ----
(***************************************************************************)
(* Model of src/scrapers/downloadYoutubeSrts.py: the identifier extractor  *)
(* get_video_id, the per-row downloader download_captions, the dispatcher  *)
(* process_csv and the entry point main.                                   *)
(*                                                                         *)
(* Strings are sequences of one-character strings, so that the regular     *)
(* expressions and str.strip() are computed character by character.        *)
(* Python's None is the value None below, which is no character sequence.  *)
(*                                                                         *)
(* What the environment does is drawn when the program asks: whether the   *)
(* CSV file exists and can be read, how the yt-dlp probe ends, and, for    *)
(* each download command, how it ends and whether it wrote the caption     *)
(* file.  The CSV file holds the same records in every run, and only the   *)
(* download command adds caption files.  Calls outside any try block       *)
(* (os.path.exists, os.makedirs, print) are taken to return normally.      *)
(* A run is followed by any number of further runs on the same CSV file    *)
(* and captions directory.                                                 *)
(***************************************************************************)
EXTENDS Integers, Sequences, FiniteSets, TLC

VARIABLES
    url_in,         \* get_video_id: the argument
    id_out,         \* get_video_id: the returned value (Unset before the call)
    pc,             \* position of the run in main / process_csv
    first_run,      \* no run of the program has ended before the current one
    csv_exists,     \* main: os.path.exists(csv_file): "yes" or "no", once evaluated
    probe,          \* process_csv: how the `yt-dlp --version` probe ended
    csv_readable,   \* process_csv: whether open / csv.DictReader succeeded: "yes" or "no"
    csv_known,      \* some run has read the CSV file
    csv_rows,       \* the records of the CSV file, once read (each has the header's keys)
    files,          \* the caption files present on disk
    files_start,    \* the caption files present when the current run started
    rows,           \* process_csv: rows
    filtered_rows,  \* process_csv: filtered_rows, as positions in rows
    total_videos,   \* process_csv: total_videos
    video_count,    \* process_csv: video_count
    idx,            \* process_csv: number of loop iterations completed
    success_count,  \* process_csv: success_count
    skip_count,     \* process_csv: skip_count
    error_count,    \* process_csv: error_count
    outcomes,       \* per position in rows: the outcome printed for that row in this run
    calls,          \* per position in rows: download commands run for that row in this run
    last_run,       \* how the download command run last in this run behaved
    all_ok,         \* so far every run returned True and every yt-dlp command run
                    \* exited 0, a download command having written its file
    result,         \* process_csv's return value: "True" or "False" ("unset" before it returns)
    exit_code       \* the argument of sys.exit

extractVars == <<url_in, id_out>>
runVars == <<pc, first_run, csv_exists, probe, csv_readable, csv_known, csv_rows, files, files_start,
             rows, filtered_rows, total_videos, video_count, idx,
             success_count, skip_count, error_count, outcomes, calls, last_run, all_ok,
             result, exit_code>>
vars == <<extractVars, runVars>>

(***************************************************************************)
(* Bounds of the model.                                                    *)
(***************************************************************************)
MaxPieces == 3      \* a URL given to get_video_id is at most this many pieces
MaxRows == 2        \* records in the CSV

(***************************************************************************)
(* Values.                                                                 *)
(***************************************************************************)
None == <<"None">>
NonStr == <<"int">>            \* an argument that is not a str (truthy)

\* the whitespace characters of \s and of str.strip() that the model uses
Whitespace == {" ", "\t", "\n", "\r", "\f"}

SetMin(S) == CHOOSE x \in S : \A y \in S : x <= y

(***************************************************************************)
(* get_video_id                                                            *)
(***************************************************************************)
WatchLit == <<"y","o","u","t","u","b","e",".","c","o","m","/","w","a","t","c","h","?","v","=">>
ShortLit == <<"y","o","u","t","u",".","b","e","/">>
EmbedLit == <<"y","o","u","t","u","b","e",".","c","o","m","/","e","m","b","e","d","/">>
VLit == <<"y","o","u","t","u","b","e",".","c","o","m","/","v","/">>

\* the three regular expressions, each a sequence of alternative literal
\* prefixes followed by the group ([^&\s]+)
patterns == << <<WatchLit, ShortLit>>, <<EmbedLit>>, <<VLit>> >>

\* a faulty [^\s]: the group runs over '&'
IdChar_no_amp(c) == c \notin Whitespace

\* [^&\s]
IdChar(c) == c # "&" /\ c \notin Whitespace

\* the greedy group ([^&\s]+) started at position j of s: the end of the
\* longest run of IdChar from j (j-1 when the run is empty)
RECURSIVE GroupEnd(_, _)
GroupEnd(s, j) ==
    IF j <= Len(s) /\ IdChar(s[j]) THEN GroupEnd(s, j + 1) ELSE j - 1

\* literal lit at position i of s
LitAt(lit, s, i) ==
    /\ i + Len(lit) - 1 <= Len(s)
    /\ \A k \in 1..Len(lit) : s[i + k - 1] = lit[k]

\* one alternative followed by the group, anchored at i: the capture or None
MatchAltAt(lit, s, i) ==
    IF LitAt(lit, s, i) /\ GroupEnd(s, i + Len(lit)) >= i + Len(lit)
    THEN SubSeq(s, i + Len(lit), GroupEnd(s, i + Len(lit)))
    ELSE None

\* the alternation anchored at i: alternatives are tried left to right
RECURSIVE MatchAt(_, _, _, _)
MatchAt(alts, a, s, i) ==
    IF a > Len(alts) THEN None
    ELSE IF MatchAltAt(alts[a], s, i) # None THEN MatchAltAt(alts[a], s, i)
    ELSE MatchAt(alts, a + 1, s, i)

\* re.search(pattern, url).group(1): the match at the leftmost position
RECURSIVE re_search(_, _, _)
re_search(alts, s, i) ==
    IF i > Len(s) THEN None
    ELSE IF MatchAt(alts, 1, s, i) # None THEN MatchAt(alts, 1, s, i)
    ELSE re_search(alts, s, i + 1)

RECURSIVE TryPatterns(_, _)
TryPatterns(p, url) ==
    IF p > Len(patterns) THEN None
    ELSE IF re_search(patterns[p], url, 1) # None THEN re_search(patterns[p], url, 1)
    ELSE TryPatterns(p + 1, url)

get_video_id(url) ==
    IF url = None \/ url = <<>> \/ url = NonStr THEN None
    ELSE TryPatterns(1, url)

\* the argument of one call of get_video_id: up to MaxPieces pieces, each a
\* known URL prefix, a separator or an ordinary character
Pieces == {WatchLit, ShortLit, EmbedLit, VLit,
           <<"&">>, <<" ">>, <<"\t">>, <<"a">>, <<"b", "/">>, <<"y","o","u","t","u","b","e",".","c","o","m","/">>}

RECURSIVE Concat(_)
Concat(ps) == IF ps = <<>> THEN <<>> ELSE Head(ps) \o Concat(Tail(ps))

UrlInputs ==
    {None, NonStr} \cup
    UNION { {Concat(ps) : ps \in [1..n -> Pieces]} : n \in 0..MaxPieces }

Unset == <<"unset">>

\* one call get_video_id(url_in)
ExtractId ==
    /\ id_out = Unset
    /\ id_out' = get_video_id(url_in)
    /\ UNCHANGED url_in

(***************************************************************************)
(* The CSV                                                                 *)
(***************************************************************************)
url_column == "url"
Columns == {"url", "kind", "source", "fullText"}

Video == <<"v","i","d","e","o">>
VideoCap == <<"V","i","d","e","o">>
YouTube == <<"Y","o","u","T","u","b","e">>
YouTubeLower == <<"y","o","u","t","u","b","e">>

UrlA == ShortLit \o <<"a">>
UrlB == WatchLit \o <<"b", "&", "t">>
UrlBad == <<"x", "/", "a">>

\* the values a cell of each column takes in the model, in CSV files that
\* vary the URLs and in CSV files that vary the category and text cells; None
\* is the value csv.DictReader gives a record shorter than the header
UrlCells(c) ==
    CASE c = "url" -> {None, <<>>, UrlA, UrlB, UrlBad}
      [] c = "kind" -> {Video}
      [] c = "source" -> {YouTube}
      [] c = "fullText" -> {<<>>, <<"t">>}

CategoryCells(c) ==
    CASE c = "url" -> {UrlA}
      [] c = "kind" -> {Video, VideoCap}
      [] c = "source" -> {YouTube, YouTubeLower}
      [] c = "fullText" -> {None, <<" ", "\t">>, <<" ", "t", " ">>}

AllCells == UNION {UrlCells(c) \cup CategoryCells(c) : c \in Columns}

RowsOver(h, Cells(_)) == {r \in [h -> AllCells] : \A c \in h : r[c] \in Cells(c)}

Headers == SUBSET Columns

CsvFiles(h) ==
    UNION { [1..n -> RowsOver(h, UrlCells)] \cup [1..n -> RowsOver(h, CategoryCells)]
            : n \in 0..MaxRows }

\* dict.get
row_get(row, c) == IF c \in DOMAIN row THEN row[c] ELSE None

\* a faulty truthiness that takes an empty or missing cell for a value
Truthy_always(v) == TRUE

\* Python truthiness of a cell
Truthy(v) == v # None /\ v # <<>>

\* a faulty strip that trims nothing
strip_nothing(s) == s

\* str.strip()
RECURSIVE lstrip(_)
lstrip(s) == IF s # <<>> /\ Head(s) \in Whitespace THEN lstrip(Tail(s)) ELSE s
RECURSIVE rstrip(_)
rstrip(s) ==
    IF s # <<>> /\ s[Len(s)] \in Whitespace THEN rstrip(SubSeq(s, 1, Len(s) - 1)) ELSE s
strip(s) == rstrip(lstrip(s))

Positions(n) == [i \in 1..n |-> i]

(***************************************************************************)
(* download_captions                                                       *)
(***************************************************************************)
captions_dir == <<"c", "a", "p">>
language == <<"e", "n">>

\* os.path.join(output_dir, f"{video_id}.{language}.srt")
expected_file(output_dir, video_id, lang) ==
    output_dir \o <<"/">> \o video_id \o <<".">> \o lang \o <<".", "s", "r", "t">>

\* what one run of the yt-dlp command can do: how subprocess.run ends, and
\* whether the command wrote the expected file before that
ToolRuns ==
    {[exit |-> e, wrote |-> w] : e \in {"zero", "nonzero", "timeout"}, w \in BOOLEAN}
    \cup {[exit |-> "raise", wrote |-> FALSE]}

\* a faulty download_captions that trusts the exit code alone
download_captions_exit_only(video_url, video_id, output_dir, fs, tool) ==
    LET expected == expected_file(output_dir, video_id, language)
        after == IF tool.wrote THEN fs \cup {expected} ELSE fs
    IN  IF expected \in fs
        THEN [success |-> TRUE, message |-> "Caption file already exists",
              files |-> fs, ran |-> FALSE]
        ELSE IF tool.exit = "timeout"
        THEN [success |-> FALSE, message |-> "Timeout", files |-> after, ran |-> TRUE]
        ELSE IF tool.exit = "raise"
        THEN [success |-> FALSE, message |-> "Error", files |-> after, ran |-> TRUE]
        ELSE IF tool.exit = "zero"
        THEN [success |-> TRUE, message |-> "Downloaded", files |-> after, ran |-> TRUE]
        ELSE [success |-> FALSE, message |-> "No captions available",
              files |-> after, ran |-> TRUE]

\* a faulty download_captions that never looks for an existing file
download_captions_always_run(video_url, video_id, output_dir, fs, tool) ==
    LET expected == expected_file(output_dir, video_id, language)
        after == IF tool.wrote THEN fs \cup {expected} ELSE fs
    IN  IF tool.exit = "timeout"
        THEN [success |-> FALSE, message |-> "Timeout", files |-> after, ran |-> TRUE]
        ELSE IF tool.exit = "raise"
        THEN [success |-> FALSE, message |-> "Error", files |-> after, ran |-> TRUE]
        ELSE IF tool.exit = "zero" /\ expected \in after
        THEN [success |-> TRUE, message |-> "Downloaded", files |-> after, ran |-> TRUE]
        ELSE [success |-> FALSE, message |-> "No captions available",
              files |-> after, ran |-> TRUE]

\* download_captions(video_url, video_id, output_dir) with the file system fs,
\* where the command, if it is run, behaves as tool: the returned pair, the
\* file system afterwards and whether the command was run
download_captions(video_url, video_id, output_dir, fs, tool) ==
    LET expected == expected_file(output_dir, video_id, language)
        after == IF tool.wrote THEN fs \cup {expected} ELSE fs
    IN  IF expected \in fs
        THEN [success |-> TRUE, message |-> "Caption file already exists",
              files |-> fs, ran |-> FALSE]
        ELSE IF tool.exit = "timeout"
        THEN [success |-> FALSE, message |-> "Timeout", files |-> after, ran |-> TRUE]
        ELSE IF tool.exit = "raise"
        THEN [success |-> FALSE, message |-> "Error", files |-> after, ran |-> TRUE]
        ELSE IF tool.exit = "zero" /\ expected \in after
        THEN [success |-> TRUE, message |-> "Downloaded", files |-> after, ran |-> TRUE]
        ELSE [success |-> FALSE, message |-> "No captions available",
              files |-> after, ran |-> TRUE]

\* "already exists" in message, over the messages download_captions returns
\* with success
already_exists_in(message) == message = "Caption file already exists"

(***************************************************************************)
(* main and process_csv                                                    *)
(***************************************************************************)
NoOutcomes(n) == [i \in 1..n |-> "none"]
NoCalls(n) == [i \in 1..n |-> 0]
NoRun == [exit |-> "none", wrote |-> FALSE]

\* main: the exit code for what process_csv returned
exit_code_of(success) == IF success = "True" THEN 0 ELSE 1

\* process_csv returns value, and main exits with the code for it
Return(value) ==
    /\ result' = value
    /\ exit_code' = exit_code_of(value)
    /\ pc' = "exited"

\* process_csv goes on to the position next
Goto(next) ==
    /\ pc' = next
    /\ UNCHANGED <<result, exit_code>>

\* main, up to the call of process_csv
Main ==
    /\ pc = "main"
    /\ \E e \in BOOLEAN :
        /\ csv_exists' = (IF e THEN "yes" ELSE "no")
        /\ IF e THEN pc' = "probe" /\ exit_code' = exit_code
                ELSE pc' = "exited" /\ exit_code' = 1
    /\ UNCHANGED <<first_run, probe, csv_readable, csv_known, csv_rows, files, files_start, rows,
                   filtered_rows, total_videos, video_count, idx, success_count,
                   skip_count, error_count, outcomes, calls, last_run, all_ok, result>>

\* the ways subprocess.run(['yt-dlp', '--version'], check=True, timeout=5) ends
ProbeRuns == {"zero", "nonzero", "timeout", "raise"}

\* process_csv: the check that yt-dlp is installed
Probe ==
    /\ pc = "probe"
    /\ \E p \in ProbeRuns :
        /\ probe' = p
        /\ IF p = "zero" THEN Goto("read") ELSE Return("False")
        /\ all_ok' = (all_ok /\ p = "zero")
    /\ UNCHANGED <<first_run, csv_exists, csv_readable, csv_known, csv_rows, files, files_start, rows,
                   filtered_rows, total_videos, video_count, idx, success_count,
                   skip_count, error_count, outcomes, calls, last_run>>

\* process_csv: reading the CSV file; the file holds the same records
\* whenever it is read
ReadCSV ==
    /\ pc = "read"
    /\ \E ok \in BOOLEAN :
        /\ csv_readable' = (IF ok THEN "yes" ELSE "no")
        /\ IF ok THEN /\ IF csv_known
                         THEN csv_rows' = csv_rows
                         ELSE \E h \in Headers : csv_rows' \in CsvFiles(h)
                      /\ csv_known' = TRUE
                      /\ rows' = csv_rows'
                      /\ outcomes' = NoOutcomes(Len(csv_rows'))
                      /\ calls' = NoCalls(Len(csv_rows'))
                      /\ Goto("columns")
                 ELSE /\ Return("False")
                      /\ UNCHANGED <<csv_known, csv_rows, rows, outcomes, calls>>
    /\ UNCHANGED <<first_run, csv_exists, probe, files, files_start,
                   filtered_rows, total_videos, video_count, idx, success_count,
                   skip_count, error_count, last_run, all_ok>>

\* a faulty check that goes on without the URL column
CheckColumns_no_abort ==
    /\ pc = "columns"
    /\ Goto("filter")
    /\ UNCHANGED <<first_run, csv_exists, probe, csv_readable, csv_known, csv_rows, files,
                   files_start, rows, filtered_rows, total_videos, video_count, idx,
                   success_count, skip_count, error_count, outcomes, calls, last_run,
                   all_ok>>

\* process_csv: the check that the URL column exists
CheckColumns ==
    /\ pc = "columns"
    /\ IF Len(rows) > 0 /\ url_column \notin DOMAIN rows[1]
       THEN Return("False")
       ELSE Goto("filter")
    /\ UNCHANGED <<first_run, csv_exists, probe, csv_readable, csv_known, csv_rows, files, files_start,
                   rows, filtered_rows, total_videos, video_count, idx, success_count,
                   skip_count, error_count, outcomes, calls, last_run, all_ok>>

has_kind_source(rs) == Len(rs) > 0 /\ "kind" \in DOMAIN rs[1] /\ "source" \in DOMAIN rs[1]
has_fulltext(rs) == Len(rs) > 0 /\ "fullText" \in DOMAIN rs[1]

\* a faulty category filter that ignores the source column
category_filter_kind_only(rs) ==
    IF has_kind_source(rs)
    THEN SelectSeq(Positions(Len(rs)), LAMBDA i : row_get(rs[i], "kind") = Video)
    ELSE SelectSeq(Positions(Len(rs)), LAMBDA i : Truthy(row_get(rs[i], url_column)))

\* the category filter: the positions of the rows kept
category_filter(rs) ==
    IF has_kind_source(rs)
    THEN SelectSeq(Positions(Len(rs)),
                   LAMBDA i : row_get(rs[i], "kind") = Video
                              /\ row_get(rs[i], "source") = YouTube)
    ELSE SelectSeq(Positions(Len(rs)), LAMBDA i : Truthy(row_get(rs[i], url_column)))

\* the rows of kept that still need captions
videos_needing_captions(rs, kept) ==
    IF has_fulltext(rs)
    THEN SelectSeq(kept,
                   LAMBDA i : \/ ~Truthy(row_get(rs[i], "fullText"))
                              \/ strip(row_get(rs[i], "fullText")) = <<>>)
    ELSE kept

\* process_csv: the category filter and total_videos
CategoryFilter ==
    /\ pc = "filter"
    /\ filtered_rows' = category_filter(rows)
    /\ total_videos' = Len(filtered_rows')
    /\ pc' = "redundancy"
    /\ UNCHANGED <<first_run, csv_exists, probe, csv_readable, csv_known, csv_rows, files,
                   files_start, rows, video_count, idx, success_count, skip_count,
                   error_count, outcomes, calls, last_run, all_ok, result, exit_code>>

\* process_csv: the fullText filter, video_count, the return when no row is
\* left, and the counters set to zero before the loop
RedundancySkip ==
    /\ pc = "redundancy"
    /\ filtered_rows' = videos_needing_captions(rows, filtered_rows)
    /\ video_count' = Len(filtered_rows')
    /\ IF video_count' = 0
       THEN Return("True")
       ELSE Goto("loop")
    /\ success_count' = 0
    /\ skip_count' = 0
    /\ error_count' = 0
    /\ idx' = 0
    /\ UNCHANGED <<first_run, csv_exists, probe, csv_readable, csv_known, csv_rows, files,
                   files_start, rows, total_videos, outcomes, calls, last_run, all_ok>>

\* the outcome the loop prints for what download_captions returned
outcome_of(success, message) ==
    IF success
    THEN IF already_exists_in(message) THEN "AlreadyExists" ELSE "Downloaded"
    ELSE CASE message = "No captions available" -> "NoCaptionsAvailable"
           [] message = "Timeout" -> "Timeout"
           [] OTHER -> "Error"

\* a faulty count that drops the failed rows
count_row_no_errors(success, message, counts) ==
    IF success
    THEN IF already_exists_in(message)
         THEN <<counts[1], counts[2] + 1, counts[3]>>
         ELSE <<counts[1] + 1, counts[2], counts[3]>>
    ELSE counts

\* the counters <<success_count, skip_count, error_count>> after one row
count_row(success, message, counts) ==
    IF success
    THEN IF already_exists_in(message)
         THEN <<counts[1], counts[2] + 1, counts[3]>>
         ELSE <<counts[1] + 1, counts[2], counts[3]>>
    ELSE <<counts[1], counts[2], counts[3] + 1>>

\* a faulty loop that stays on the same row
next_row_stay(i) == i

\* the number of loop iterations completed after iteration i + 1 (enumerate)
next_row(i) == i + 1

\* process_csv: one iteration of the loop over filtered_rows
LoopStep ==
    /\ pc = "loop"
    /\ idx < Len(filtered_rows)
    /\ LET r == filtered_rows[idx + 1]
           url == row_get(rows[r], url_column)
           video_id == get_video_id(url)
       IN  \/ /\ ~Truthy(url)
              /\ UNCHANGED <<files, outcomes, calls, last_run, all_ok,
                             success_count, skip_count, error_count>>
           \/ /\ Truthy(url)
              /\ video_id = None
              /\ outcomes' = [outcomes EXCEPT ![r] = "Invalid"]
              /\ error_count' = error_count + 1
              /\ UNCHANGED <<files, calls, last_run, all_ok, success_count, skip_count>>
           \/ /\ Truthy(url)
              /\ video_id # None
              /\ \E tool \in ToolRuns :
                    LET d == download_captions(url, video_id, captions_dir, files, tool)
                        c == count_row(d.success, d.message,
                                       <<success_count, skip_count, error_count>>)
                    IN  /\ files' = d.files
                        /\ calls' = [calls EXCEPT ![r] = @ + (IF d.ran THEN 1 ELSE 0)]
                        /\ last_run' = (IF d.ran THEN tool ELSE last_run)
                        /\ all_ok' = (all_ok /\ (d.ran => tool.exit = "zero" /\ tool.wrote))
                        /\ outcomes' = [outcomes EXCEPT ![r] = outcome_of(d.success, d.message)]
                        /\ success_count' = c[1]
                        /\ skip_count' = c[2]
                        /\ error_count' = c[3]
    /\ idx' = next_row(idx)
    /\ UNCHANGED <<pc, first_run, csv_exists, probe, csv_readable, csv_known, csv_rows, files_start, rows,
                   filtered_rows, total_videos, video_count, result, exit_code>>

\* process_csv: the summary after the loop and the return, and main's exit
Summary ==
    /\ pc = "loop"
    /\ idx >= Len(filtered_rows)
    /\ Return("True")
    /\ UNCHANGED <<first_run, csv_exists, probe, csv_readable, csv_known, csv_rows, files, files_start,
                   rows, filtered_rows, total_videos, video_count, idx, success_count,
                   skip_count, error_count, outcomes, calls, last_run, all_ok>>

\* the program is started again on the same CSV file and captions directory
Rerun ==
    /\ pc = "exited"
    /\ first_run' = FALSE
    /\ all_ok' = (all_ok /\ result = "True")
    /\ pc' = "main"
    /\ csv_exists' = "unknown"
    /\ probe' = "unknown"
    /\ csv_readable' = "unknown"
    /\ files_start' = files
    /\ rows' = <<>>
    /\ filtered_rows' = <<>>
    /\ total_videos' = 0
    /\ video_count' = 0
    /\ idx' = 0
    /\ success_count' = 0
    /\ skip_count' = 0
    /\ error_count' = 0
    /\ outcomes' = <<>>
    /\ calls' = <<>>
    /\ last_run' = NoRun
    /\ result' = "unset"
    /\ exit_code' = -1
    /\ UNCHANGED <<csv_known, csv_rows, files>>

(***************************************************************************)
(* Specifications                                                          *)
(***************************************************************************)
RunStart ==
    /\ pc = "main"
    /\ first_run = TRUE
    /\ csv_exists = "unknown"
    /\ probe = "unknown"
    /\ csv_readable = "unknown"
    /\ files_start = files
    /\ rows = <<>>
    /\ filtered_rows = <<>>
    /\ total_videos = 0
    /\ video_count = 0
    /\ idx = 0
    /\ success_count = 0
    /\ skip_count = 0
    /\ error_count = 0
    /\ outcomes = <<>>
    /\ calls = <<>>
    /\ last_run = NoRun
    /\ all_ok = TRUE
    /\ result = "unset"
    /\ exit_code = -1

\* the program is started with no caption file on disk
Init ==
    /\ url_in = None
    /\ id_out = Unset
    /\ csv_known = FALSE
    /\ csv_rows = <<>>
    /\ files = {}
    /\ RunStart

Next ==
    \/ (Main /\ UNCHANGED extractVars)
    \/ (Probe /\ UNCHANGED extractVars)
    \/ (ReadCSV /\ UNCHANGED extractVars)
    \/ (CheckColumns /\ UNCHANGED extractVars)
    \/ (CategoryFilter /\ UNCHANGED extractVars)
    \/ (RedundancySkip /\ UNCHANGED extractVars)
    \/ (LoopStep /\ UNCHANGED extractVars)
    \/ (Summary /\ UNCHANGED extractVars)
    \/ (Rerun /\ UNCHANGED extractVars)

Spec == Init /\ [][Next]_vars

\* get_video_id called on one argument
InitExtract ==
    /\ url_in \in UrlInputs
    /\ id_out = Unset
    /\ csv_known = FALSE
    /\ csv_rows = <<>>
    /\ files = {}
    /\ RunStart

NextExtract == ExtractId /\ UNCHANGED runVars

SpecExtract == InitExtract /\ [][NextExtract]_vars

(***************************************************************************)
(* Properties of get_video_id (specification SpecExtract)                  *)
(***************************************************************************)
\* lit occurs in s at position i
Occurs(lit, s, i) ==
    /\ i >= 1
    /\ i + Len(lit) - 1 <= Len(s)
    /\ SubSeq(s, i, i + Len(lit) - 1) = lit

\* the segment of s from position j up to, not including, the first '&' or
\* whitespace character at or after j (up to the end of s if there is none)
Segment(s, j) ==
    LET stops == {k \in j..Len(s) : s[k] = "&" \/ s[k] \in Whitespace}
    IN  IF stops = {} THEN SubSeq(s, j, Len(s)) ELSE SubSeq(s, j, SetMin(stops) - 1)

\* the URL shapes of each pattern, in the order the patterns are tried
Shapes == << {WatchLit, ShortLit}, {EmbedLit}, {VLit} >>

\* pattern p matches s at position i: one of its shapes occurs there and a
\* non-empty segment follows it
ShapeMatches(p, s, i) ==
    \E lit \in Shapes[p] : Occurs(lit, s, i) /\ Segment(s, i + Len(lit)) # <<>>

MatchingPatterns(s) == {p \in 1..Len(Shapes) : \E i \in 1..Len(s) : ShapeMatches(p, s, i)}

\* the identifier of s: of the first pattern that matches anywhere, at its
\* leftmost match, the segment after the shape's prefix
IdentifierOf(s) ==
    LET p == SetMin(MatchingPatterns(s))
        i == SetMin({k \in 1..Len(s) : ShapeMatches(p, s, k)})
        lit == CHOOSE l \in Shapes[p] : Occurs(l, s, i) /\ Segment(s, i + Len(l)) # <<>>
    IN  Segment(s, i + Len(lit))

\* C10: get_video_id returns, for a URL that matches a known shape, the
\* segment after the prefix of the first matching pattern up to the first
\* '&' or whitespace, and None for a non-matching, empty or non-string input
C10_ExtractId ==
    id_out # Unset =>
        id_out = (IF url_in \in {None, NonStr, <<>>} \/ MatchingPatterns(url_in) = {}
                  THEN None
                  ELSE IdentifierOf(url_in))

\* a short link followed by a further parameter: the identifier stops at '&'
C10_Witness ==
    /\ url_in = ShortLit \o <<"a">> \o <<"&">>
    /\ id_out = <<"a">>

(***************************************************************************)
(* Properties of the dispatcher (specification Spec)                       *)
(***************************************************************************)
\* the row the next loop iteration is about, its URL and its caption file
InLoop == pc = "loop" /\ idx < Len(filtered_rows)
CurRow == filtered_rows[idx + 1]
CurUrl == row_get(rows[CurRow], url_column)
CurFile == expected_file(captions_dir, get_video_id(CurUrl), language)
Resolves == Truthy(CurUrl) /\ get_video_id(CurUrl) # None

ErrorOutcomes == {"Invalid", "NoCaptionsAvailable", "Timeout", "Error"}

\* C1: for a row whose identifier resolves and whose caption file is not
\* there before the call, the row is Downloaded and counted as a download
\* exactly when the command exits 0 and the file is there afterwards; when
\* the command returns and that is not so, the row is NoCaptionsAvailable
\* and counted as an error, not as a download
C1_DownloadedIff ==
    [][ (InLoop /\ Resolves /\ CurFile \notin files) =>
            LET ok == last_run'.exit = "zero" /\ CurFile \in files'
            IN  /\ calls'[CurRow] = calls[CurRow] + 1
                /\ (outcomes'[CurRow] = "Downloaded") <=> ok
                /\ success_count' = success_count + (IF ok THEN 1 ELSE 0)
                /\ (last_run'.exit \in {"zero", "nonzero"} /\ ~ok) =>
                      /\ outcomes'[CurRow] = "NoCaptionsAvailable"
                      /\ error_count' = error_count + 1
                      /\ skip_count' = skip_count ]_vars

\* the command exited 0 and wrote no file: the row is an error
C1_Witness ==
    /\ idx = 1
    /\ calls[filtered_rows[1]] = 1
    /\ last_run = [exit |-> "zero", wrote |-> FALSE]
    /\ outcomes[filtered_rows[1]] = "NoCaptionsAvailable"
    /\ error_count = 1
    /\ success_count = 0

\* C2: when the caption file of a row is already there, the command is not
\* run for the row, the outcome is AlreadyExists and only skip_count grows
C2_AlreadyExists ==
    [][ (InLoop /\ Resolves /\ CurFile \in files) =>
            /\ calls' = calls
            /\ last_run' = last_run
            /\ files' = files
            /\ outcomes'[CurRow] = "AlreadyExists"
            /\ skip_count' = skip_count + 1
            /\ success_count' = success_count
            /\ error_count' = error_count ]_vars

\* the second of two rows with the same identifier is skipped
C2_Witness ==
    /\ pc = "loop"
    /\ idx = 2
    /\ outcomes[filtered_rows[1]] = "Downloaded"
    /\ outcomes[filtered_rows[2]] = "AlreadyExists"
    /\ calls[filtered_rows[2]] = 0
    /\ skip_count = 1
    /\ success_count = 1
    /\ error_count = 0

\* C9: in one run the download command is run at most once for a row, and a
\* row that failed is not attempted again in that run
C9_AtMostOnce ==
    /\ [](\A r \in DOMAIN calls : calls[r] <= 1)
    /\ [][ pc' # "main" =>
            \A r \in DOMAIN outcomes :
                outcomes[r] \in ErrorOutcomes =>
                    /\ calls'[r] = calls[r]
                    /\ outcomes'[r] = outcomes[r] ]_vars

\* a run has ended after a row timed out: the command was run once for it
C9_Witness ==
    /\ pc = "exited"
    /\ Len(filtered_rows) = 2
    /\ outcomes[filtered_rows[1]] = "Timeout"
    /\ calls[filtered_rows[1]] = 1
    /\ calls[filtered_rows[2]] = 1

\* the rows a run has filtered, and the run returned normally or is in the loop
Filtered == pc = "loop" \/ (pc = "exited" /\ result = "True")

ColumnsOf(rs) == IF rs = <<>> THEN {} ELSE DOMAIN rs[1]
RangeOf(f) == {f[j] : j \in DOMAIN f}
Increasing(f) == \A j, k \in DOMAIN f : j < k => f[j] < f[k]

\* the rows the category filter is to keep
Matched(rs) ==
    IF {"kind", "source"} \subseteq ColumnsOf(rs)
    THEN {i \in DOMAIN rs : rs[i]["kind"] = Video /\ rs[i]["source"] = YouTube}
    ELSE {i \in DOMAIN rs : "url" \in DOMAIN rs[i] /\ rs[i]["url"] \notin {None, <<>>}}

\* row i has text: a fullText that is not empty after trimming whitespace
HasText(rs, i) ==
    /\ rs[i]["fullText"] # None
    /\ \E k \in DOMAIN rs[i]["fullText"] : rs[i]["fullText"][k] \notin Whitespace

\* C3, as claimed: in a run after runs in which every command succeeded,
\* nothing is downloaded and every row processed ends AlreadyExists
C3_AllAlreadyExists ==
    (~first_run /\ all_ok /\ pc = "exited" /\ result = "True") =>
        /\ success_count = 0
        /\ \A j \in DOMAIN filtered_rows : outcomes[filtered_rows[j]] = "AlreadyExists"

\* C3, amended: in a run after runs in which every command succeeded, no
\* command is run, nothing is downloaded, and every row processed whose
\* identifier resolves ends AlreadyExists; a row whose URL does not resolve
\* is Invalid again and a row without a URL is passed over again
C3_Idempotent ==
    (~first_run /\ all_ok /\ Filtered) =>
        /\ success_count = 0
        /\ \A r \in DOMAIN calls : calls[r] = 0
        /\ files = files_start
        /\ \A j \in 1..idx :
              LET u == row_get(rows[filtered_rows[j]], url_column)
              IN  outcomes[filtered_rows[j]] =
                      (IF u \in {None, <<>>} THEN "none"
                       ELSE IF get_video_id(u) = None THEN "Invalid"
                       ELSE "AlreadyExists")

\* a second run over two rows that the first run downloaded
C3_Witness ==
    /\ ~first_run
    /\ all_ok
    /\ pc = "exited"
    /\ result = "True"
    /\ Len(filtered_rows) = 2
    /\ skip_count = 2
    /\ Cardinality(files) = 2

\* C4: the category filter keeps exactly the rows with kind "video" and
\* source "YouTube" when both columns are present, and exactly the rows
\* with a non-empty URL otherwise, and total_videos counts them
C4_CategoryFilter ==
    pc = "redundancy" =>
        /\ RangeOf(filtered_rows) = Matched(rows)
        /\ Len(filtered_rows) = Cardinality(Matched(rows))
        /\ Increasing(filtered_rows)
        /\ total_videos = Cardinality(Matched(rows))

\* a row of kind "video" whose source is "youtube" is dropped
C4_Witness ==
    /\ pc = "redundancy"
    /\ Len(rows) = 2
    /\ {"kind", "source"} \subseteq DOMAIN rows[1]
    /\ rows[1]["kind"] = Video
    /\ rows[1]["source"] = YouTubeLower
    /\ filtered_rows = <<2>>
    /\ total_videos = 1

\* C5: with a fullText column, a category-matched row that has text is not
\* processed (no command, no outcome) and is counted only in the difference
\* total_videos - video_count, and a matched row without text stays to be
\* processed; the three counters count processed rows only
C5_RedundancySkip ==
    (Filtered /\ "fullText" \in ColumnsOf(rows)) =>
        /\ \A i \in Matched(rows) :
              IF HasText(rows, i)
              THEN /\ i \notin RangeOf(filtered_rows)
                   /\ calls[i] = 0
                   /\ outcomes[i] = "none"
              ELSE i \in RangeOf(filtered_rows)
        /\ total_videos - video_count
              = Cardinality({i \in Matched(rows) : HasText(rows, i)})
        /\ success_count + skip_count + error_count
              = Cardinality({j \in 1..idx : outcomes[filtered_rows[j]] # "none"})

\* of two matched rows, the one with whitespace only is downloaded and the
\* one with text is left out
C5_Witness ==
    /\ pc = "exited"
    /\ result = "True"
    /\ Len(rows) = 2
    /\ "fullText" \in DOMAIN rows[1]
    /\ rows[1]["fullText"] = <<" ", "\t">>
    /\ rows[2]["fullText"] = <<" ", "t", " ">>
    /\ total_videos = 2
    /\ video_count = 1
    /\ filtered_rows = <<1>>
    /\ success_count = 1
    /\ outcomes[2] = "none"

\* C6, as claimed: a row for whose URL (empty and missing URLs included)
\* get_video_id returns None is Invalid and counted as an error, no command
\* is run, and the loop goes on
C6_InvalidAlways ==
    [][ (InLoop /\ get_video_id(CurUrl) = None) =>
            /\ outcomes'[CurRow] = "Invalid"
            /\ error_count' = error_count + 1
            /\ calls' = calls
            /\ idx' = idx + 1
            /\ pc' = "loop" ]_vars

\* C6, amended: a row with a non-empty URL for which get_video_id returns
\* None is Invalid and counted as an error, no command is run, and the loop
\* goes on; a row whose URL is empty or missing is passed over: no outcome,
\* no counter changes, no command is run, and the loop goes on
C6_InvalidOrPassedOver ==
    [][ (InLoop /\ get_video_id(CurUrl) = None) =>
            /\ calls' = calls
            /\ files' = files
            /\ idx' = idx + 1
            /\ pc' = "loop"
            /\ success_count' = success_count
            /\ skip_count' = skip_count
            /\ IF CurUrl \in {None, <<>>}
               THEN outcomes' = outcomes /\ error_count' = error_count
               ELSE /\ outcomes'[CurRow] = "Invalid"
                    /\ error_count' = error_count + 1 ]_vars

\* an Invalid row, counted, and the row after it downloaded
C6_Witness ==
    /\ idx = 2
    /\ row_get(rows[filtered_rows[1]], url_column) = UrlBad
    /\ outcomes[filtered_rows[1]] = "Invalid"
    /\ outcomes[filtered_rows[2]] = "Downloaded"
    /\ error_count = 1
    /\ success_count = 1

\* a fail-fast condition of the current run has been met
FailFast ==
    \/ probe \in {"nonzero", "timeout", "raise"}
    \/ csv_readable = "no"
    \/ /\ pc \notin {"main", "probe", "read", "columns"}
       /\ Len(rows) > 0
       /\ url_column \notin DOMAIN rows[1]

\* C7: when the probe fails, the CSV cannot be read, or there are rows and
\* no URL column, process_csv returns False before any row is processed:
\* no command is run, no file and no counter is touched, and the exit code is 1
C7_FailFast ==
    FailFast =>
        /\ pc = "exited"
        /\ result = "False"
        /\ exit_code = 1
        /\ files = files_start
        /\ last_run = NoRun
        /\ \A r \in DOMAIN calls : calls[r] = 0 /\ outcomes[r] = "none"
        /\ filtered_rows = <<>>
        /\ idx = 0
        /\ <<total_videos, video_count, success_count, skip_count, error_count>>
              = <<0, 0, 0, 0, 0>>

\* a run over a CSV with rows and no URL column has exited with code 1
C7_Witness ==
    /\ pc = "exited"
    /\ exit_code = 1
    /\ probe = "zero"
    /\ Len(rows) = 2
    /\ url_column \notin DOMAIN rows[1]

====
